---------------------------- MODULE Spec2Model ----------------------------
(***************************************************************************)
(* A model of the traffic knowledge-graph wrapper (src/kg/kg_utils.py) and *)
(* of the hosted-model call (src/llm/client.py).                           *)
(*                                                                         *)
(* Spec     the graph store: Init is the state right after                 *)
(*          TrafficKnowledgeGraph.__init__ (so after _load_graph) for a    *)
(*          graph description drawn from a bounded family; the actions are *)
(*          the five query methods, each followed by the caller taking the *)
(*          result.  The loader validates nothing, so the family holds     *)
(*          repeated ids, repeated labels and edges to unlisted ids too.   *)
(* LlmSpec  call_llm under every provider outcome.                         *)
(*                                                                         *)
(* Python values are tagged records so that a list, None, a pair, a string *)
(* and a raised exception can be told apart.                               *)
(***************************************************************************)
EXTENDS Naturals, Sequences, FiniteSets

VARIABLES
    nodes,        \* G's nodes, in insertion order (a sequence of ids)
    ntype,        \* G.nodes[id].get("type"), NoField when the key is absent
    adj,          \* G.adj: id -> neighbour ids, in insertion order
    label_to_id,  \* self.label_to_id
    id_to_label,  \* self.id_to_label
    call,         \* the call that has just returned: [op, a1, a2, a3]
    ret,          \* what that call produced
    provider      \* what the hosted model did during that call (LlmSpec)

vars == <<nodes, ntype, adj, label_to_id, id_to_label, call, ret, provider>>

-----------------------------------------------------------------------------
(* Bounds of the model *)

MaxNodes == 3     \* longest "nodes" list of a graph description
MaxEdges == 3     \* longest "edges" list of a graph description
MaxText  == 3     \* longest response text of the provider, in characters

(* The universes the descriptions and the arguments are drawn from *)

NoField == "<absent>"                 \* a JSON key that is not there
NodeIds == {"n1", "n2", "n3"}         \* ids that node records may carry
IdList  == <<"n1", "n2", "n3", "zz">> \* ids that edge records may name
Labels  == {"a"}                      \* explicit "label" values
Types   == {"hospital", "road"}       \* "type" values

\* A node record: "id" is required, "label" and "type" are optional.
NodeRecs == [id : NodeIds, label : Labels \cup {NoField}, type : Types \cup {NoField}]

IdRank(n) == CHOOSE i \in 1..Len(IdList) : IdList[i] = n

\* The "nodes" lists: at most MaxNodes node records, ids in the order of IdList
\* (an id may come more than once, a label too).
NodeLists ==
    { s \in UNION { [1..k -> NodeRecs] : k \in 0..MaxNodes } :
        \A i \in DOMAIN s : \A j \in DOMAIN s :
            i < j => IdRank(s[i].id) <= IdRank(s[j].id) }

\* The "edges" lists: at most MaxEdges edge records, each naming a different
\* unordered pair of different ids, listed in a fixed order.
EdgeIdx   == { p \in (1..Len(IdList)) \X (1..Len(IdList)) : p[1] < p[2] }
EdgeRank(p) == p[1] * (Len(IdList) + 1) + p[2]
EdgeRec(p)  == [from |-> IdList[p[1]], to |-> IdList[p[2]]]
EdgeLists ==
    { [i \in DOMAIN s |-> EdgeRec(s[i])] :
        s \in { t \in UNION { [1..k -> EdgeIdx] : k \in 0..MaxEdges } :
                   \A i \in DOMAIN t : \A j \in DOMAIN t :
                       i < j => EdgeRank(t[i]) < EdgeRank(t[j]) } }

QLabels == Labels \cup { IdList[i] : i \in DOMAIN IdList }   \* label arguments of the queries
QTypes  == Types                                 \* type arguments of the queries

-----------------------------------------------------------------------------
(* Python values *)

PyNone       == [kind |-> "None",  val |-> <<>>, path |-> <<>>]
PyList(s)    == [kind |-> "list",  val |-> s,    path |-> <<>>]
PyStr(s)     == [kind |-> "str",   val |-> <<s>>, path |-> <<>>]
PyPair(l, p) == [kind |-> "pair",  val |-> <<l>>, path |-> p]
PyRaise(e)   == [kind |-> "raise", val |-> <<e>>, path |-> <<>>]

PyText(cs)   == [kind |-> "str",   val |-> cs,   path |-> <<>>]  \* a string, by characters

NoCall == [op |-> "none", a1 |-> NoField, a2 |-> NoField, a3 |-> NoField]
KgCall(op, a1, a2) == [op |-> op, a1 |-> a1, a2 |-> a2, a3 |-> NoField]

Range(s) == { s[i] : i \in DOMAIN s }
InSeq(x, s) == \E i \in DOMAIN s : s[i] = x

Put(f, k, v) == [x \in (DOMAIN f) \cup {k} |-> IF x = k THEN v ELSE f[x]]

-----------------------------------------------------------------------------
(* The graph library: nx.Graph.add_node, add_edge, neighbors, shortest_path *)

EmptyGraph ==
    [nodes |-> <<>>, ntype |-> <<>>, adj |-> <<>>,
     label_to_id |-> <<>>, id_to_label |-> <<>>]

\* G.add_node(n, **attrs): a new node is appended; an existing node keeps its
\* place and its attributes are updated with the keys given.
GAddNode(g, n, type) ==
    IF InSeq(n, g.nodes)
    THEN [g EXCEPT !.ntype = Put(g.ntype, n, IF type = NoField THEN g.ntype[n] ELSE type)]
    ELSE [g EXCEPT !.nodes = Append(g.nodes, n),
                   !.ntype = Put(g.ntype, n, type),
                   !.adj   = Put(g.adj, n, <<>>)]

\* adj[u][v] = data: v is appended to u's neighbours unless already there.
GLink(g, u, v) ==
    IF InSeq(v, g.adj[u]) THEN g
    ELSE [g EXCEPT !.adj = Put(g.adj, u, Append(g.adj[u], v))]

\* G.add_edge(u, v): endpoints that are not nodes yet are created, bare.
GAddEdge(g, u, v) ==
    LET g1 == IF InSeq(u, g.nodes) THEN g ELSE GAddNode(g, u, NoField)
        g2 == IF InSeq(v, g1.nodes) THEN g1 ELSE GAddNode(g1, v, NoField)
    IN  GLink(GLink(g2, u, v), v, u)

-----------------------------------------------------------------------------
(* TrafficKnowledgeGraph._load_graph *)

\* one iteration of "for node in nodes"
LoadNode(g, node) ==
    LET node_id == node.id
        label   == IF node.label = NoField THEN node_id ELSE node.label
        g1      == GAddNode(g, node_id, node.type)
    IN  [g1 EXCEPT !.label_to_id = Put(g1.label_to_id, label, node_id),
                   !.id_to_label = Put(g1.id_to_label, node_id, label)]

\* one iteration of "for edge in edges"
LoadEdge(g, edge) == GAddEdge(g, edge.from, edge.to)

RECURSIVE LoadNodes(_, _)
LoadNodes(g, ns) ==
    IF ns = <<>> THEN g ELSE LoadNodes(LoadNode(g, Head(ns)), Tail(ns))

RECURSIVE LoadEdges(_, _)
LoadEdges(g, es) ==
    IF es = <<>> THEN g ELSE LoadEdges(LoadEdge(g, Head(es)), Tail(es))

-----------------------------------------------------------------------------
(* nx.shortest_path(G, source, target) on an unweighted graph: a breadth-   *)
(* first search.  Which of several shortest paths comes back is up to the   *)
(* library, so the model keeps them all and a caller gets any one of them.  *)
(* The empty set stands for NetworkXNoPath.                                 *)

Last(p) == p[Len(p)]

RECURSIVE Bfs(_, _, _, _)
Bfs(g, frontier, visited, t) ==
    IF frontier = {} THEN {}
    ELSE LET hits == { p \in frontier : Last(p) = t }
         IN  IF hits # {} THEN hits
             ELSE LET next == UNION { { Append(p, v) : v \in Range(g.adj[Last(p)]) \ visited }
                                      : p \in frontier }
                  IN  Bfs(g, next, visited \cup { Last(p) : p \in next }, t)

ShortestPaths(g, s, t) == Bfs(g, {<<s>>}, {s}, t)

\* [self.id_to_label[n] for n in ids]: KeyError when an id has no label
LabelsOf(g, ids) ==
    IF \E i \in DOMAIN ids : ids[i] \notin DOMAIN g.id_to_label
    THEN PyRaise("KeyError")
    ELSE PyList([i \in DOMAIN ids |-> g.id_to_label[ids[i]]])

-----------------------------------------------------------------------------
(* The query methods of TrafficKnowledgeGraph, as functions of the loaded   *)
(* object g.  find_path and find_nearest_node_of_type give the set of       *)
(* results the library's choice of shortest path allows.                    *)

get_neighbors(g, node_label) ==
    IF node_label \notin DOMAIN g.label_to_id THEN PyList(<<>>)
    ELSE LET node_id      == g.label_to_id[node_label]
             neighbor_ids == g.adj[node_id]
         IN  LabelsOf(g, neighbor_ids)

\* find_path with the guard on the target dropped: the library is then asked
\* for a path to None, which is no node
find_path_NoTargetGuard(g, source_label, target_label) ==
    IF source_label \notin DOMAIN g.label_to_id THEN { PyList(<<>>) }
    ELSE IF target_label \notin DOMAIN g.label_to_id THEN { PyRaise("NodeNotFound") }
    ELSE LET paths == ShortestPaths(g, g.label_to_id[source_label], g.label_to_id[target_label])
         IN  IF paths = {} THEN { PyList(<<>>) }
             ELSE { LabelsOf(g, path_ids) : path_ids \in paths }

find_path(g, source_label, target_label) ==
    IF source_label \notin DOMAIN g.label_to_id
       \/ target_label \notin DOMAIN g.label_to_id
    THEN { PyList(<<>>) }
    ELSE LET src_id == g.label_to_id[source_label]
             tgt_id == g.label_to_id[target_label]
         IN  IF ~InSeq(src_id, g.nodes) \/ ~InSeq(tgt_id, g.nodes)
             THEN { PyRaise("NodeNotFound") }
             ELSE LET paths == ShortestPaths(g, src_id, tgt_id)
                  IN  IF paths = {} THEN { PyList(<<>>) }
                      ELSE { LabelsOf(g, path_ids) : path_ids \in paths }

get_node_type(g, node_label) ==
    IF node_label \notin DOMAIN g.label_to_id THEN PyNone
    ELSE LET node_id == g.label_to_id[node_label]
         IN  IF g.ntype[node_id] = NoField THEN PyNone
             ELSE PyStr(g.ntype[node_id])

\* the ids of the nodes whose "type" is node_type, in the order of G.nodes
IdsOfType(g, node_type) ==
    LET Match(n) == g.ntype[n] = node_type
    IN  SelectSeq(g.nodes, Match)

\* get_nodes_by_type appending node_id where the label was meant
get_nodes_by_type_Ids(g, node_type) == PyList(IdsOfType(g, node_type))

get_nodes_by_type(g, node_type) ==
    LET ids == IdsOfType(g, node_type)
    IN  PyList([i \in DOMAIN ids |->
                  IF ids[i] \in DOMAIN g.id_to_label
                  THEN g.id_to_label[ids[i]] ELSE ids[i]])

NoBest == [target |-> NoField, path |-> <<>>]   \* best_target = best_path_ids = None

\* one iteration of "for tgt_id in target_ids", for every path the library may give
ScanStep(g, src_id, bests, tgt_id) ==
    LET paths == ShortestPaths(g, src_id, tgt_id)
    IN  IF paths = {} THEN bests
        ELSE { IF b = NoBest \/ Len(path_ids) < Len(b.path)
               THEN [target |-> tgt_id, path |-> path_ids]
               ELSE b : b \in bests, path_ids \in paths }

RECURSIVE Scan(_, _, _, _)
Scan(g, src_id, bests, target_ids) ==
    IF target_ids = <<>> THEN bests
    ELSE Scan(g, src_id, ScanStep(g, src_id, bests, Head(target_ids)), Tail(target_ids))

NearestReturn(g, b) ==
    IF b = NoBest THEN PyNone
    ELSE IF b.target \notin DOMAIN g.id_to_label THEN PyRaise("KeyError")
    ELSE LET path_labels == LabelsOf(g, b.path)
         IN  IF path_labels.kind = "raise" THEN path_labels
             ELSE PyPair(g.id_to_label[b.target], path_labels.val)

find_nearest_node_of_type(g, source_label, target_type) ==
    IF source_label \notin DOMAIN g.label_to_id THEN { PyNone }
    ELSE LET src_id     == g.label_to_id[source_label]
             target_ids == IdsOfType(g, target_type)
         IN  IF target_ids = <<>> THEN { PyNone }
             ELSE { NearestReturn(g, b) : b \in Scan(g, src_id, {NoBest}, target_ids) }

-----------------------------------------------------------------------------
(* The graph store as a state machine *)

Kg == [nodes |-> nodes, ntype |-> ntype, adj |-> adj,
       label_to_id |-> label_to_id, id_to_label |-> id_to_label]

kgvars == <<nodes, ntype, adj, label_to_id, id_to_label, provider>>

NoProvider == [stage |-> "idle", err |-> <<>>, text |-> <<>>]

\* the object after TrafficKnowledgeGraph(graph_json_path), for any description
Init ==
    \E gn \in { LoadNodes(EmptyGraph, ns) : ns \in NodeLists } : \E es \in EdgeLists :
        LET g == LoadEdges(gn, es)
        IN  /\ nodes = g.nodes
            /\ ntype = g.ntype
            /\ adj = g.adj
            /\ label_to_id = g.label_to_id
            /\ id_to_label = g.id_to_label
            /\ call = NoCall
            /\ ret = PyNone
            /\ provider = NoProvider

GetNeighbors ==
    \E l \in QLabels :
        /\ call = NoCall
        /\ call' = KgCall("get_neighbors", l, NoField)
        /\ ret' = get_neighbors(Kg, l)
        /\ UNCHANGED kgvars

FindPath ==
    \E s \in QLabels : \E t \in QLabels :
        /\ call = NoCall
        /\ call' = KgCall("find_path", s, t)
        /\ ret' \in find_path(Kg, s, t)
        /\ UNCHANGED kgvars

GetNodeType ==
    \E l \in QLabels :
        /\ call = NoCall
        /\ call' = KgCall("get_node_type", l, NoField)
        /\ ret' = get_node_type(Kg, l)
        /\ UNCHANGED kgvars

GetNodesByType ==
    \E t \in QTypes :
        /\ call = NoCall
        /\ call' = KgCall("get_nodes_by_type", t, NoField)
        /\ ret' = get_nodes_by_type(Kg, t)
        /\ UNCHANGED kgvars

FindNearestNodeOfType ==
    \E s \in QLabels : \E t \in QTypes :
        /\ call = NoCall
        /\ call' = KgCall("find_nearest_node_of_type", s, t)
        /\ ret' \in find_nearest_node_of_type(Kg, s, t)
        /\ UNCHANGED kgvars

\* the caller takes the value returned (or the exception raised) and goes on
TakeResult ==
    /\ call # NoCall
    /\ call' = NoCall
    /\ ret' = PyNone
    /\ UNCHANGED kgvars

Next ==
    \/ GetNeighbors
    \/ FindPath
    \/ GetNodeType
    \/ GetNodesByType
    \/ FindNearestNodeOfType
    \/ TakeResult

Spec == Init /\ [][Next]_vars

-----------------------------------------------------------------------------
(* src/llm/client.py: call_llm.  Strings it builds or trims are sequences   *)
(* of characters.                                                           *)

DEFAULT_MODEL == "gemini-2.5-flash"

ErrorPrefix    == <<"[", "L", "L", "M", " ", "E", "R", "R", "O", "R", "]", " ">>
NoTextSentinel ==
    <<"[", "L", "L", "M", " ", "r", "e", "t", "u", "r", "n", "e", "d", " ", "n", "o", " ", "t", "e", "x", "t">> \o
    <<" ", "r", "e", "s", "p", "o", "n", "s", "e", "]">>

Chars == {" ", "x"}
IsSpace(c) == c = " "
Texts == UNION { [1..k -> Chars] : k \in 0..MaxText }

\* str.strip(): leading and trailing whitespace removed
RECURSIVE LStrip(_)
LStrip(cs) == IF cs # <<>> /\ IsSpace(Head(cs)) THEN LStrip(Tail(cs)) ELSE cs

RECURSIVE RStrip(_)
RStrip(cs) ==
    IF cs # <<>> /\ IsSpace(cs[Len(cs)]) THEN RStrip(SubSeq(cs, 1, Len(cs) - 1)) ELSE cs

Strip(cs) == RStrip(LStrip(cs))

\* What the provider does during one call.  An error is an Exception with the
\* description err.  "no_text_attr": getattr(response, "text") raises
\* AttributeError, which is what hasattr tests; "text_raises": reading
\* response.text raises any other Exception; "text_none": response.text is None.
Errors == { <<"4", "2", "9">>, <<>> }
ProviderOutcomes ==
    [stage : {"construct_raises", "generate_raises", "text_raises"}, err : Errors, text : {<<>>}]
    \cup [stage : {"no_text_attr", "text_none"}, err : {<<>>}, text : {<<>>}]
    \cup [stage : {"text"}, err : {<<>>}, text : Texts]

\* the handler of "except Exception as e"
LlmError(e) == PyText(ErrorPrefix \o e)

\* call_llm with the try block closed before the response text is read
call_llm_TextReadOutsideTry(prompt, system_instruction, model_name, o) ==
    IF o.stage \in {"construct_raises", "generate_raises"} THEN LlmError(o.err)
    ELSE IF o.stage = "text_raises" THEN PyRaise("Exception")
    ELSE IF o.stage \in {"no_text_attr", "text_none"} \/ o.text = <<>>
         THEN PyText(NoTextSentinel)
    ELSE PyText(Strip(o.text))

\* Either form of genai.GenerativeModel(...) (with or without the system
\* instruction) may raise; nothing else depends on the three arguments.
call_llm(prompt, system_instruction, model_name, o) ==
    IF o.stage = "construct_raises" THEN LlmError(o.err)
    ELSE IF o.stage = "generate_raises" THEN LlmError(o.err)
    ELSE IF o.stage = "no_text_attr" THEN PyText(NoTextSentinel)
    ELSE IF o.stage = "text_raises" THEN LlmError(o.err)
    ELSE IF o.stage = "text_none" \/ o.text = <<>> THEN PyText(NoTextSentinel)
    ELSE PyText(Strip(o.text))

Prompts            == {"", "route to hospital"}
SystemInstructions == {NoField, "", "be brief"}
ModelNames         == {DEFAULT_MODEL, "other-model"}

LlmInit ==
    /\ nodes = EmptyGraph.nodes
    /\ ntype = EmptyGraph.ntype
    /\ adj = EmptyGraph.adj
    /\ label_to_id = EmptyGraph.label_to_id
    /\ id_to_label = EmptyGraph.id_to_label
    /\ call = NoCall
    /\ ret = PyNone
    /\ provider = NoProvider

CallLlm ==
    \E prompt \in Prompts : \E si \in SystemInstructions :
    \E model_name \in ModelNames : \E o \in ProviderOutcomes :
        /\ call = NoCall
        /\ call' = [op |-> "call_llm", a1 |-> prompt, a2 |-> si, a3 |-> model_name]
        /\ provider' = o
        /\ ret' = call_llm(prompt, si, model_name, o)
        /\ UNCHANGED <<nodes, ntype, adj, label_to_id, id_to_label>>

LlmTakeResult ==
    /\ call # NoCall
    /\ call' = NoCall
    /\ ret' = PyNone
    /\ provider' = NoProvider
    /\ UNCHANGED <<nodes, ntype, adj, label_to_id, id_to_label>>

LlmNext == CallLlm \/ LlmTakeResult

LlmSpec == LlmInit /\ [][LlmNext]_vars

-----------------------------------------------------------------------------
(* What the properties speak of, stated without the query methods *)

Known(l) == l \in DOMAIN label_to_id
NodeSet  == Range(nodes)

\* u and v are joined by an edge of G
Joined(u, v) == InSeq(v, adj[u])

\* the nodes within k hops of s
RECURSIVE Ball(_, _)
Ball(s, k) ==
    IF k = 0 THEN {s}
    ELSE LET b == Ball(s, k - 1)
         IN  b \cup { v \in NodeSet : \E u \in b : Joined(u, v) }

Reachable(s, t) == t \in Ball(s, Len(nodes))

\* the unweighted hop distance from s to a reachable t
HopDist(s, t) ==
    CHOOSE k \in 0..Len(nodes) :
        t \in Ball(s, k) /\ \A j \in 0..k : j < k => t \notin Ball(s, j)

\* the labels of the ids of S that have one
LabelSet(S) == { id_to_label[n] : n \in S \cap DOMAIN id_to_label }

\* p is a sequence of labels from a to b, consecutive ones joined by an edge
IsLabelPath(p, a, b) ==
    /\ p # <<>>
    /\ p[1] = a
    /\ p[Len(p)] = b
    /\ \A i \in DOMAIN p : Known(p[i])
    /\ \A i \in DOMAIN p :
           i < Len(p) => Joined(label_to_id[p[i]], label_to_id[p[i + 1]])

\* the nodes of type t that can be reached from s, and the nearest among them
ReachableOfType(s, t) == { n \in NodeSet : ntype[n] = t /\ Reachable(s, n) }
NearestOfType(s, t) ==
    { n \in ReachableOfType(s, t) :
        \A m \in ReachableOfType(s, t) : HopDist(s, n) <= HopDist(s, m) }
Pos(n) == CHOOSE i \in DOMAIN nodes : nodes[i] = n
FirstOf(S) == CHOOSE n \in S : \A m \in S : Pos(n) <= Pos(m)

-----------------------------------------------------------------------------
(* The properties *)

\* C1: call_llm never propagates an exception and always returns a string,
\* whatever the provider does; when the provider raised (constructing the
\* model, generating, or reading the text), the string is "[LLM ERROR] "
\* followed by the error's description.
C1_CallLlmAlwaysString ==
    call.op = "call_llm" =>
        /\ ret.kind = "str"
        /\ provider.stage \in {"construct_raises", "generate_raises", "text_raises"}
               => ret.val = ErrorPrefix \o provider.err

C1_Witness ==
    /\ call.op = "call_llm"
    /\ provider.stage = "text_raises"
    /\ provider.err # <<>>
    /\ ret = PyText(ErrorPrefix \o provider.err)

\* C2: for a label that is not a key of label_to_id, get_neighbors returns [],
\* get_node_type returns None, find_path returns [] whichever of its two
\* arguments is the unknown one, and find_nearest_node_of_type returns None.
C2_UnknownLabelEmptyResults ==
    /\ (call.op = "get_neighbors" /\ ~Known(call.a1)) => ret = PyList(<<>>)
    /\ (call.op = "get_node_type" /\ ~Known(call.a1)) => ret = PyNone
    /\ (call.op = "find_path" /\ (~Known(call.a1) \/ ~Known(call.a2)))
           => ret = PyList(<<>>)
    /\ (call.op = "find_nearest_node_of_type" /\ ~Known(call.a1)) => ret = PyNone

\* find_path from a known label to an id that is a node of G but no label
C2_Witness ==
    /\ call.op = "find_path"
    /\ Known(call.a1)
    /\ ~Known(call.a2)
    /\ call.a2 \in NodeSet
    /\ Reachable(label_to_id[call.a1], call.a2)
    /\ ret = PyList(<<>>)

\* C3: after the load of any description the loader accepts, no query raises.
C3_NoQueryRaises == ret.kind # "raise"

\* C4: label_to_id and id_to_label are strict inverses, and every node of G
\* has exactly one entry in id_to_label and exactly one label mapping to it.
C4_StrictInverses ==
    /\ \A l \in DOMAIN label_to_id :
           /\ label_to_id[l] \in DOMAIN id_to_label
           /\ id_to_label[label_to_id[l]] = l
    /\ \A i \in DOMAIN id_to_label :
           /\ id_to_label[i] \in DOMAIN label_to_id
           /\ label_to_id[id_to_label[i]] = i
    /\ \A n \in NodeSet :
           /\ n \in DOMAIN id_to_label
           /\ Cardinality({ l \in DOMAIN label_to_id : label_to_id[l] = n }) = 1

\* C5: for a known label, get_neighbors gives exactly the labels of the nodes
\* joined to its node by an edge, and neighbourhood is symmetric between known
\* labels.
C5_NeighborsExactAndSymmetric ==
    /\ (call.op = "get_neighbors" /\ Known(call.a1)) =>
           /\ ret.kind = "list"
           /\ Range(ret.val) = LabelSet({ v \in NodeSet : Joined(label_to_id[call.a1], v) })
    /\ \A a \in DOMAIN label_to_id : \A b \in DOMAIN label_to_id :
           LET na == get_neighbors(Kg, a)
               nb == get_neighbors(Kg, b)
           IN  /\ na.kind = "list"
               /\ nb.kind = "list"
               /\ (a \in Range(nb.val)) <=> (b \in Range(na.val))

\* C6: between known labels, find_path gives a path of hop distance + 1 labels
\* from the first to the second when one exists, and [] when none does.
C6_FindPathShortest ==
    (call.op = "find_path" /\ Known(call.a1) /\ Known(call.a2)) =>
        LET s == label_to_id[call.a1]
            t == label_to_id[call.a2]
        IN  IF Reachable(s, t)
            THEN /\ ret.kind = "list"
                 /\ IsLabelPath(ret.val, call.a1, call.a2)
                 /\ Len(ret.val) = HopDist(s, t) + 1
            ELSE ret = PyList(<<>>)

\* C7: from a known label, find_nearest_node_of_type gives None exactly when no
\* node of the type can be reached, and otherwise a node of the type with a
\* path to it whose length is the least over all reachable nodes of the type.
C7_NearestOfType ==
    (call.op = "find_nearest_node_of_type" /\ Known(call.a1)) =>
        LET s == label_to_id[call.a1]
        IN  IF ReachableOfType(s, call.a2) = {}
            THEN ret = PyNone
            ELSE /\ ret.kind = "pair"
                 /\ ret.val[1] \in LabelSet(ReachableOfType(s, call.a2))
                 /\ IsLabelPath(ret.path, call.a1, ret.val[1])
                 /\ \A n \in NearestOfType(s, call.a2) :
                        Len(ret.path) = HopDist(s, n) + 1

\* C8: get_nodes_by_type gives exactly the labels of the nodes whose type is
\* the one asked for, and [] when there is none.
C8_NodesByTypeExact ==
    call.op = "get_nodes_by_type" =>
        LET members == { n \in NodeSet : ntype[n] = call.a1 }
        IN  /\ ret.kind = "list"
            /\ Range(ret.val) = { id_to_label[n] : n \in members }
            /\ members = {} => ret = PyList(<<>>)

\* two nodes of the type, under different labels, beside a node that is not
C8_Witness ==
    /\ call.op = "get_nodes_by_type"
    /\ Cardinality(Range(ret.val)) = 2
    /\ \E n \in NodeSet : ntype[n] \in Types \ {call.a1}
    /\ \E n \in NodeSet : ntype[n] = NoField

\* C9: when the provider gives no usable text (no text attribute, empty text,
\* whitespace only) call_llm returns the no-text sentinel; a result that is no
\* sentinel is the trimmed response text and is not empty.
C9_NoUsableTextGivesSentinel ==
    call.op = "call_llm" =>
        LET unusable == \/ provider.stage \in {"no_text_attr", "text_none"}
                        \/ provider.stage = "text" /\ Strip(provider.text) = <<>>
            sentinel == \/ ret.val = NoTextSentinel
                        \/ /\ Len(ret.val) >= Len(ErrorPrefix)
                           /\ SubSeq(ret.val, 1, Len(ErrorPrefix)) = ErrorPrefix
        IN  /\ unusable => ret = PyText(NoTextSentinel)
            /\ (ret.kind = "str" /\ ~sentinel) =>
                   /\ provider.stage = "text"
                   /\ ret.val = Strip(provider.text)
                   /\ ret.val # <<>>

\* C10: when several nodes of the type are nearest to a known label, the one
\* that comes first in G's node order is the one returned.
C10_FirstNearestWins ==
    (call.op = "find_nearest_node_of_type" /\ Known(call.a1)) =>
        LET near == NearestOfType(label_to_id[call.a1], call.a2)
        IN  Cardinality(near) >= 2 =>
                /\ ret.kind = "pair"
                /\ FirstOf(near) \in DOMAIN id_to_label
                /\ ret.val[1] = id_to_label[FirstOf(near)]

-----------------------------------------------------------------------------
(* The graph properties above, on the loads that leave the two maps strict  *)
(* inverses covering every node of G (ids and labels not repeated, edges    *)
(* naming listed nodes only).                                               *)

WellFormed == C4_StrictInverses

WellFormed_NoQueryRaises      == WellFormed => C3_NoQueryRaises
WellFormed_NeighborsSymmetric == WellFormed => C5_NeighborsExactAndSymmetric
WellFormed_FindPathShortest   == WellFormed => C6_FindPathShortest
WellFormed_NearestOfType      == WellFormed => C7_NearestOfType
WellFormed_FirstNearestWins   == WellFormed => C10_FirstNearestWins

=============================================================================
